---- MODULE Spec2Model ----
(***************************************************************************)
(* Model of the badminton-analyzer backends.                               *)
(*                                                                         *)
(* The repository holds three servers that serve the same two routes:      *)
(*   "shopify"  src/unnamed/part_000 lines 1-289: multer fileFilter,       *)
(*              mongoose Analysis store, startAnalysis and its timer;      *)
(*   "mock"     src/unnamed/part_000 lines 423-619: multer fileFilter,     *)
(*              multer errors answered inline, mock analysis payload;      *)
(*   "basic"    src/server.js: no fileFilter, mock analysis payload.       *)
(* One server runs per behaviour (variable variant).  An action is the     *)
(* code that runs between two awaits of a handler: a store operation is    *)
(* applied, or fails, in the step in which its await resumes.              *)
(***************************************************************************)
EXTENDS Integers, Sequences, FiniteSets, TLC

(* ---------------- bounds of the model ---------------- *)

\* uploads that reach the shopify handler with a stored file (ObjectIds drawn)
MaxUploads == 2
\* values Date.now() takes after the first one
MaxClock == 1
\* invocations of startAnalysis under SpecDirect
MaxCalls == 3
\* Math.random() returns r / RandDen for r in 0 .. RandDen - 1
RandDen == 50

(* ---------------- program constants ---------------- *)

MiB == 1024 * 1024
FileSizeLimit == 100 * MiB
AllowedMimeTypes == {"video/mp4", "video/quicktime"}
StatusEnum == {"pending", "processing", "completed", "failed"}
Variants == {"shopify", "mock", "basic"}

(* ---------------- inputs ---------------- *)

ObjIds == 1 .. MaxUploads
\* a request parameter that does not cast to an ObjectId ('does-not-exist')
NotAnObjectId == 0
QueryIds == ObjIds \cup {NotAnObjectId}
OrigNames == {"rally"}
\* the uploads tried: both allowed types, the size limit reached exactly, a
\* disallowed type, and one byte over the limit
Files ==
  { [originalname |-> "rally", mimetype |-> "video/mp4", size |-> 5 * MiB],
    [originalname |-> "rally", mimetype |-> "video/quicktime",
     size |-> FileSizeLimit],
    [originalname |-> "rally", mimetype |-> "application/pdf",
     size |-> 5 * MiB],
    [originalname |-> "rally", mimetype |-> "video/mp4",
     size |-> FileSizeLimit + 1] }
\* the multipart requests: with a 'video' part, or without one
Requests ==
  [hasFile : {TRUE}, file : Files] \cup {[hasFile |-> FALSE]}
UserIds == {"u1"}
ShopIds == {"s1"}
NumScores == 10
RandSamples == 0 .. (RandDen - 1)
\* the Math.random() streams one run of simulateAIAnalysis may consume
RandomStreams ==
  { [i \in 1 .. NumScores |-> 0],
    [i \in 1 .. NumScores |-> RandDen - 1],
    [i \in 1 .. NumScores |-> (7 * i) % RandDen] }

VARIABLES
  variant,             \* which server is running
  now,                 \* Date.now()
  nextId,              \* the next ObjectId new Analysis(...) draws
  store,               \* the Analysis collection: _id -> document
  artifacts,           \* file names present in uploads/
  calls,               \* invocations of startAnalysis: [id, pc]
  resp,                \* the last HTTP response sent
  seen,                \* what the polling client got for the id it polls
  unhandledRejection,  \* a promise was rejected with no handler
  running              \* the serving process is alive

vars == <<variant, now, nextId, store, artifacts, calls, resp, seen,
          unhandledRejection, running>>

(* ---------------- documents and store operations ---------------- *)

Undefined == [undefined |-> TRUE]

\* the record created already marked as in progress
NewAnalysis_Processing(userId, shopId, filename, t) ==
  [ userId |-> userId, shopId |-> shopId, videoId |-> filename,
    videoUrl |-> <<"HOST/uploads", filename>>, status |-> "processing",
    results |-> Undefined, createdAt |-> t ]

NewAnalysis(userId, shopId, filename, t) ==
  [ userId |-> userId, shopId |-> shopId, videoId |-> filename,
    videoUrl |-> <<"HOST/uploads", filename>>, status |-> "pending",
    results |-> Undefined, createdAt |-> t ]

\* Model.updateMany({}, update) in its place: every document is written
FindByIdAndUpdate_Many(s, id, update) ==
  [d \in DOMAIN s |->
     [f \in DOMAIN s[d] |->
        IF f \in DOMAIN update THEN update[f] ELSE s[d][f]]]

\* Model.findByIdAndUpdate(id, update): sets the fields of update on the
\* document with that _id; no document matches -> nothing written, no error
FindByIdAndUpdate(s, id, update) ==
  IF id \in DOMAIN s
    THEN [s EXCEPT ![id] =
            [f \in DOMAIN @ |-> IF f \in DOMAIN update THEN update[f] ELSE @[f]]]
    ELSE s

\* the three updates startAnalysis writes
ProcessingUpdate == [status |-> "processing"]

\* the completion written without its payload
CompletedUpdate_StatusOnly(results) == [status |-> "completed"]

CompletedUpdate(results) == [status |-> "completed", results |-> results]

\* the catch blocks putting the record back in line for a retry
FailedUpdate_Retry == [status |-> "pending"]

FailedUpdate == [status |-> "failed"]

\* a request parameter casts to an ObjectId
IsObjectId(id) == id \in ObjIds

(* ---------------- simulateAIAnalysis ---------------- *)

\* the offset left out: Math.floor(Math.random() * 40)
RandomScore_NoOffset(r) == (r * 40) \div RandDen

\* Math.floor(Math.random() * 40) + 60 with Math.random() = r / RandDen
RandomScore(r) == ((r * 40) \div RandDen) + 60

simulateAIAnalysis(rs) ==
  [ technique |->
      [ overallScore |-> RandomScore(rs[1]),
        detailedMetrics |->
          [ backswing |-> RandomScore(rs[2]),
            followThrough |-> RandomScore(rs[3]),
            contactPoint |-> RandomScore(rs[4]),
            racketPath |-> RandomScore(rs[5]) ] ],
    footwork |->
      [ overallScore |-> RandomScore(rs[6]),
        detailedMetrics |->
          [ movementEfficiency |-> RandomScore(rs[7]),
            recoverySpeed |-> RandomScore(rs[8]),
            courtCoverage |-> RandomScore(rs[9]) ] ],
    strategy |-> [ overallScore |-> RandomScore(rs[10]) ] ]

\* the fixed payload of the mock GET /api/analysis/:id
MockAnalysis ==
  [ videoUrl |-> "https://example.com/sample-video.mp4",
    status |-> "completed",
    results |->
      [ technique |->
          [ overallScore |-> 78,
            detailedMetrics |->
              [ backswing |-> 82, followThrough |-> 75,
                contactPoint |-> 68, racketPath |-> 86 ] ],
        footwork |->
          [ overallScore |-> 72,
            detailedMetrics |->
              [ movementEfficiency |-> 70, recoverySpeed |-> 65,
                courtCoverage |-> 80 ] ],
        strategy |-> [ overallScore |-> 75 ] ] ]

(* ---------------- multer ---------------- *)

\* fileFilter of the shopify and mock servers
fileFilter(file) == file.mimetype \in AllowedMimeTypes

\* limits: { fileSize }: multer fails the request once the file exceeds it
\* and removes what it wrote
WithinLimits(file) == file.size <= FileSizeLimit

\* storage.filename: Date.now() + '-' + file.originalname
filename(t, file) == <<t, file.originalname>>

(* ---------------- responses ---------------- *)

\* resp is the last exchange: the request (req: the multipart request of an
\* upload, the id parameter of a query) and the response sent for it

JsonError(route, req, code, msg) ==
  [ route |-> route, req |-> req, code |-> code, json |-> TRUE,
    body |-> [success |-> FALSE, error |-> msg] ]

\* Express's default error handler: err.status || 500, an HTML page
ExpressDefaultError(route, req) ==
  [ route |-> route, req |-> req, code |-> 500, json |-> FALSE,
    body |-> "<html>" ]

UploadOk(req, videoId, message) ==
  [ route |-> "upload", req |-> req, code |-> 200, json |-> TRUE,
    body |-> [success |-> TRUE, videoId |-> videoId, message |-> message] ]

\* a projection that drops the results from the answer
AnalysisOk_StatusOnly(id, analysis) ==
  [ route |-> "analysis", req |-> id, code |-> 200, json |-> TRUE,
    body |-> [success |-> TRUE,
              analysis |-> [status |-> analysis.status]] ]

AnalysisOk(id, analysis) ==
  [ route |-> "analysis", req |-> id, code |-> 200, json |-> TRUE,
    body |-> [success |-> TRUE, analysis |-> analysis] ]

(* ---------------- initial state ---------------- *)

Init ==
  /\ variant \in Variants
  /\ now = 0
  /\ nextId = 1
  /\ store = [i \in {} |-> Undefined]
  /\ artifacts = {}
  /\ calls = <<>>
  /\ resp = [route |-> "none"]
  /\ seen = Undefined
  /\ unhandledRejection = FALSE
  /\ running = TRUE

\* the clock advances
Tick ==
  /\ running
  /\ now < MaxClock
  /\ now' = now + 1
  /\ UNCHANGED <<variant, nextId, store, artifacts, calls, resp, seen,
                 unhandledRejection, running>>

(* ---------------- startAnalysis (shopify server) ---------------- *)

\* the status of the record of an id, "none" when it has no record
StatusOf(s, id) == IF id \in DOMAIN s THEN s[id].status ELSE "none"

\* the caller awaiting the whole analysis: the call is over when it returns
startAnalysis_Awaited(cs, s, analysisId) ==
  Append(cs, [id |-> analysisId, pc |-> "done",
              at |-> StatusOf(s, analysisId)])

\* the handler calling it a second time for the same record
startAnalysis_Twice(cs, s, analysisId) ==
  Append(Append(cs, [id |-> analysisId, pc |-> "update",
                     at |-> StatusOf(s, analysisId)]),
         [id |-> analysisId, pc |-> "update",
          at |-> StatusOf(s, analysisId)])

\* startAnalysis(analysisId, videoPath) up to its first await: the update to
\* 'processing' is issued, whatever the record's status, and the caller gets
\* the pending promise back.  at notes the status the record had at the call.
startAnalysis(cs, s, analysisId) ==
  Append(cs, [id |-> analysisId, pc |-> "update",
              at |-> StatusOf(s, analysisId)])

\* a rejected promise nobody handles: Node either only reports it or, with
\* --unhandled-rejections=throw (the default from Node 15 on), exits
Unhandled ==
  /\ unhandledRejection' = TRUE
  /\ running' \in BOOLEAN

\* setTimeout moved after the try/catch: reached after a failed update too
AfterUpdateFailed_Finally == "timer"

\* the update to 'processing' threw: control is in the catch block
AfterUpdateFailed == "catch"

\* await Analysis.findByIdAndUpdate(analysisId, {status: 'processing'})
\* resumes: the timer is set, or the catch block issues the 'failed' update
StartAnalysisUpdate(c) ==
  /\ running
  /\ c \in DOMAIN calls
  /\ calls[c].pc = "update"
  /\ \E ok \in BOOLEAN :
       IF ok
         THEN /\ store' = FindByIdAndUpdate(store, calls[c].id,
                                            ProcessingUpdate)
              /\ calls' = [calls EXCEPT ![c].pc = "timer"]
         ELSE /\ calls' = [calls EXCEPT ![c].pc = AfterUpdateFailed]
              /\ UNCHANGED store
  /\ UNCHANGED <<variant, now, nextId, artifacts, resp, seen,
                 unhandledRejection, running>>

\* the catch block of startAnalysis: await findByIdAndUpdate({status:
\* 'failed'}) resumes; its rejection rejects the promise of startAnalysis
StartAnalysisCatch(c) ==
  /\ running
  /\ c \in DOMAIN calls
  /\ calls[c].pc = "catch"
  /\ \E ok \in BOOLEAN :
       IF ok
         THEN /\ store' = FindByIdAndUpdate(store, calls[c].id,
                                            FailedUpdate)
              /\ calls' = [calls EXCEPT ![c].pc = "returned"]
              /\ UNCHANGED <<unhandledRejection, running>>
         ELSE /\ calls' = [calls EXCEPT ![c].pc = "rejected"]
              /\ UNCHANGED store
              /\ Unhandled
  /\ UNCHANGED <<variant, now, nextId, artifacts, resp, seen>>

\* setInterval in place of setTimeout: the callback stays scheduled
AfterCallback_Interval == "timer"

\* setTimeout runs its callback once: nothing is scheduled after it
AfterCallback == "done"

\* the setTimeout callback: simulateAIAnalysis(), then the update to
\* 'completed' with the results resumes, or the catch block takes over
TimerCallback(c) ==
  /\ running
  /\ c \in DOMAIN calls
  /\ calls[c].pc = "timer"
  /\ \E rs \in RandomStreams, ok \in BOOLEAN :
       IF ok
         THEN /\ store' = FindByIdAndUpdate(store, calls[c].id,
                            CompletedUpdate(simulateAIAnalysis(rs)))
              /\ calls' = [calls EXCEPT ![c].pc = AfterCallback]
         ELSE /\ calls' = [calls EXCEPT ![c].pc = "timerCatch"]
              /\ UNCHANGED store
  /\ UNCHANGED <<variant, now, nextId, artifacts, resp, seen,
                 unhandledRejection, running>>

\* the catch block of the callback: the update to 'failed' resumes; its
\* rejection rejects the promise of the async callback
TimerCatch(c) ==
  /\ running
  /\ c \in DOMAIN calls
  /\ calls[c].pc = "timerCatch"
  /\ \E ok \in BOOLEAN :
       IF ok
         THEN /\ store' = FindByIdAndUpdate(store, calls[c].id,
                                            FailedUpdate)
              /\ calls' = [calls EXCEPT ![c].pc = "done"]
              /\ UNCHANGED <<unhandledRejection, running>>
         ELSE /\ calls' = [calls EXCEPT ![c].pc = "timerRejected"]
              /\ UNCHANGED store
              /\ Unhandled
  /\ UNCHANGED <<variant, now, nextId, artifacts, resp, seen>>

(* ---------------- POST /api/upload-video ---------------- *)

\* shopify server: upload.single('video') as middleware, then the handler
UploadVideoShopify ==
  /\ running
  /\ variant = "shopify"
  /\ \E req \in Requests, userId \in UserIds, shopId \in ShopIds :
       \/ \* multer passes its error to next(err); the handler never runs
          /\ req.hasFile
          /\ ~fileFilter(req.file) \/ ~WithinLimits(req.file)
          /\ resp' = ExpressDefaultError("upload", req)
          /\ UNCHANGED <<nextId, store, artifacts, calls>>
       \/ \* no 'video' part: req.file.filename throws inside the try
          /\ ~req.hasFile
          /\ resp' = JsonError("upload", req, 500,
                               "Cannot read properties of undefined")
          /\ UNCHANGED <<nextId, store, artifacts, calls>>
       \/ /\ req.hasFile
          /\ fileFilter(req.file)
          /\ WithinLimits(req.file)
          /\ nextId <= MaxUploads
          /\ artifacts' = artifacts \cup {filename(now, req.file)}
          /\ nextId' = nextId + 1
          /\ \E saveOk \in BOOLEAN :
               IF saveOk
                 THEN /\ store' = store @@
                           (nextId :> NewAnalysis(userId, shopId,
                                        filename(now, req.file), now))
                      /\ calls' = startAnalysis(calls, store', nextId)
                      /\ resp' = UploadOk(req, nextId,
                           "Video uploaded successfully. Analysis is now in progress.")
                 ELSE /\ resp' = JsonError("upload", req, 500,
                                           "Failed to upload video")
                      /\ UNCHANGED <<store, calls>>
  /\ UNCHANGED <<variant, now, seen, unhandledRejection, running>>

\* mock server: upload.single('video') called inline, its error answered
UploadVideoMock ==
  /\ running
  /\ variant = "mock"
  /\ \E req \in Requests :
       \/ /\ req.hasFile
          /\ ~fileFilter(req.file)
          /\ resp' = JsonError("upload", req, 400,
                       "Invalid file type. Only MP4 and MOV are allowed.")
          /\ UNCHANGED artifacts
       \/ /\ req.hasFile
          /\ fileFilter(req.file)
          /\ ~WithinLimits(req.file)
          /\ resp' = JsonError("upload", req, 400, "File too large")
          /\ UNCHANGED artifacts
       \/ /\ ~req.hasFile
          /\ resp' = JsonError("upload", req, 400, "No file was uploaded")
          /\ UNCHANGED artifacts
       \/ /\ req.hasFile
          /\ fileFilter(req.file)
          /\ WithinLimits(req.file)
          /\ artifacts' = artifacts \cup {filename(now, req.file)}
          /\ resp' = UploadOk(req, <<"test", now>>,
                              "Video upload received successfully")
  /\ UNCHANGED <<variant, now, nextId, store, calls, seen,
                 unhandledRejection, running>>

\* basic server (src/server.js): multer without a fileFilter, as middleware
UploadVideoBasic ==
  /\ running
  /\ variant = "basic"
  /\ \E req \in Requests :
       \/ /\ req.hasFile
          /\ ~WithinLimits(req.file)
          /\ resp' = ExpressDefaultError("upload", req)
          /\ UNCHANGED artifacts
       \/ /\ ~req.hasFile
          /\ resp' = JsonError("upload", req, 400, "No file was uploaded")
          /\ UNCHANGED artifacts
       \/ /\ req.hasFile
          /\ WithinLimits(req.file)
          /\ artifacts' = artifacts \cup {filename(now, req.file)}
          /\ resp' = UploadOk(req, <<"test", now>>,
                              "Video upload received successfully")
  /\ UNCHANGED <<variant, now, nextId, store, calls, seen,
                 unhandledRejection, running>>

(* ---------------- GET /api/analysis/:id ---------------- *)

\* shopify server: findById casts the parameter (CastError when it is no
\* ObjectId), reads the document and answers with it
AnswerAnalysis(id, readOk) ==
  IF ~IsObjectId(id)
    THEN JsonError("analysis", id, 500, "Cast to ObjectId failed")
    ELSE IF ~readOk
      THEN JsonError("analysis", id, 500, "Failed to fetch analysis")
      ELSE IF id \notin DOMAIN store
        THEN JsonError("analysis", id, 404, "Analysis not found")
        ELSE AnalysisOk(id, store[id])

GetAnalysisShopify ==
  /\ running
  /\ variant = "shopify"
  /\ \E id \in QueryIds, readOk \in BOOLEAN :
       resp' = AnswerAnalysis(id, readOk)
  /\ UNCHANGED <<variant, now, nextId, store, artifacts, calls, seen,
                 unhandledRejection, running>>

\* a polling client keeps to the first id it got an analysis for, and holds
\* the last answer (analysis) and the one before it (prev)
Polled(id, analysis) ==
  IF seen = Undefined
    THEN [id |-> id, analysis |-> analysis, prev |-> Undefined]
    ELSE IF seen.id = id
      THEN [id |-> id, analysis |-> analysis, prev |-> seen.analysis]
      ELSE seen

\* GET /api/analysis/:id sent by the polling client, which keeps the answer
Poll ==
  /\ running
  /\ variant = "shopify"
  /\ \E id \in QueryIds, readOk \in BOOLEAN :
       /\ resp' = AnswerAnalysis(id, readOk)
       /\ seen' = IF resp'.code = 200
                    THEN Polled(id, resp'.body.analysis)
                    ELSE seen
  /\ UNCHANGED <<variant, now, nextId, store, artifacts, calls,
                 unhandledRejection, running>>

\* mock server: the fixed payload, whatever the id
GetAnalysisMock ==
  /\ running
  /\ variant = "mock"
  /\ \E id \in QueryIds : resp' = AnalysisOk(id, MockAnalysis)
  /\ UNCHANGED <<variant, now, nextId, store, artifacts, calls, seen,
                 unhandledRejection, running>>

\* basic server: the fixed payload, whatever the id
GetAnalysisBasic ==
  /\ running
  /\ variant = "basic"
  /\ \E id \in QueryIds : resp' = AnalysisOk(id, MockAnalysis)
  /\ UNCHANGED <<variant, now, nextId, store, artifacts, calls, seen,
                 unhandledRejection, running>>

\* startAnalysis called on its own (not through an upload), with any id
DirectStartAnalysis ==
  /\ running
  /\ variant = "shopify"
  /\ Len(calls) < MaxCalls
  /\ \E id \in ObjIds : calls' = startAnalysis(calls, store, id)
  /\ UNCHANGED <<variant, now, nextId, store, artifacts, resp, seen,
                 unhandledRejection, running>>

(* ---------------- specifications ---------------- *)

Next ==
  \/ Tick
  \/ UploadVideoShopify
  \/ UploadVideoMock
  \/ UploadVideoBasic
  \/ GetAnalysisShopify
  \/ GetAnalysisMock
  \/ GetAnalysisBasic
  \/ \E c \in DOMAIN calls : StartAnalysisUpdate(c)
  \/ \E c \in DOMAIN calls : StartAnalysisCatch(c)
  \/ \E c \in DOMAIN calls : TimerCallback(c)
  \/ \E c \in DOMAIN calls : TimerCatch(c)

Spec == Init /\ [][Next]_vars

\* the event loop runs every due timer callback and every continuation of a
\* settled await
FairSpec ==
  /\ Spec
  /\ WF_vars(\E c \in DOMAIN calls : StartAnalysisUpdate(c))
  /\ WF_vars(\E c \in DOMAIN calls : StartAnalysisCatch(c))
  /\ WF_vars(\E c \in DOMAIN calls : TimerCallback(c))
  /\ WF_vars(\E c \in DOMAIN calls : TimerCatch(c))

\* the shopify server with startAnalysis also called on its own; MaxCalls
\* caps the invocations, those of uploads included
InitShopify == Init /\ variant = "shopify"

NextDirect ==
  \/ Len(calls) < MaxCalls /\ UploadVideoShopify
  \/ DirectStartAnalysis
  \/ \E c \in DOMAIN calls : StartAnalysisUpdate(c)
  \/ \E c \in DOMAIN calls : StartAnalysisCatch(c)
  \/ \E c \in DOMAIN calls : TimerCallback(c)
  \/ \E c \in DOMAIN calls : TimerCatch(c)

SpecDirect == InitShopify /\ [][NextDirect]_vars

\* the shopify server with the polling client; the clock stands still
NextPoll ==
  \/ UploadVideoShopify
  \/ Poll
  \/ \E c \in DOMAIN calls : StartAnalysisUpdate(c)
  \/ \E c \in DOMAIN calls : StartAnalysisCatch(c)
  \/ \E c \in DOMAIN calls : TimerCallback(c)
  \/ \E c \in DOMAIN calls : TimerCatch(c)

SpecPoll == InitShopify /\ [][NextPoll]_vars


(* ---------------- properties ---------------- *)

Terminal == {"completed", "failed"}

\* pending <= processing <= {completed, failed}
Rank(status) ==
  CASE status = "pending" -> 0
    [] status = "processing" -> 1
    [] OTHER -> 2

IsUploadOk(r) == r.route = "upload" /\ r.code = 200

IsAnalysisOk(r) == r.route = "analysis" /\ r.code = 200

\* the step sends an upload response
UploadAnswered == resp'.route = "upload" /\ resp' # resp

C2_ThreeEdges ==
  {<<"pending", "processing">>, <<"processing", "completed">>,
   <<"processing", "failed">>}

C2_OnlyThreeEdges ==
  [][\A id \in DOMAIN store :
       store'[id].status # store[id].status =>
         <<store[id].status, store'[id].status>> \in C2_ThreeEdges]_vars

\* C2 amended: every change of status is one of the three edges or
\* pending -> failed, and pending -> failed is written only by the catch
\* block of startAnalysis, after the write of 'processing' failed
C2_EdgesWithStartFailure ==
  [][\A id \in DOMAIN store :
       store'[id].status # store[id].status =>
         \/ <<store[id].status, store'[id].status>> \in C2_ThreeEdges
         \/ /\ store[id].status = "pending"
            /\ store'[id].status = "failed"
            /\ \E c \in DOMAIN calls :
                 /\ calls[c].id = id
                 /\ calls[c].pc = "catch"
                 /\ calls'[c].pc = "returned"]_vars

C2_Witness ==
  \E c \in DOMAIN calls :
    /\ calls[c].pc = "returned"
    /\ store[calls[c].id].status = "failed"

\* C3: of two successive answers the polling client gets for its id the
\* later one is never behind the earlier one in the order pending <=
\* processing <= {completed, failed}, and after a completed or failed answer
\* the next one has the same status and the same results
C3_TerminalAbsorbing ==
  (seen # Undefined /\ seen.prev # Undefined) =>
    /\ Rank(seen.prev.status) <= Rank(seen.analysis.status)
    /\ seen.prev.status \in Terminal =>
         /\ seen.analysis.status = seen.prev.status
         /\ seen.analysis.results = seen.prev.results

C3_Witness ==
  /\ seen # Undefined
  /\ seen.prev # Undefined
  /\ seen.prev.status = "completed"
  /\ seen.analysis.status = "completed"
  /\ seen.analysis.results = seen.prev.results

\* C4: a call of startAnalysis made for a record that is processing,
\* completed or failed does nothing: no step of it changes a record or sets
\* a timer
C4_SecondSubmitNoOp ==
  [][\A c \in DOMAIN calls :
       (calls[c].at \in {"processing", "completed", "failed"}
          /\ calls'[c] # calls[c]) =>
         (store' = store /\ calls'[c].pc # "timer")]_vars

\* C5: once the 200 response of an upload is sent the record is no longer
\* pending, and no query is answered with pending
C5_ProcessingBeforeAck ==
  variant = "shopify" =>
    /\ IsUploadOk(resp) => store[resp.body.videoId].status # "pending"
    /\ IsAnalysisOk(resp) => resp.body.analysis.status # "pending"

\* a record appears only in a step that answers an upload with 200, and that
\* step adds exactly the record of the returned videoId, as pending
C6_OneRecordPerUpload ==
  /\ DOMAIN store' # DOMAIN store => (UploadAnswered /\ IsUploadOk(resp'))
  /\ (UploadAnswered /\ IsUploadOk(resp')) =>
       /\ resp'.body.videoId \notin DOMAIN store
       /\ DOMAIN store' = DOMAIN store \cup {resp'.body.videoId}
       /\ store'[resp'.body.videoId].status = "pending"
       /\ \A id \in DOMAIN store : store'[id] = store[id]

\* the exchange that follows the 200 of an upload is a query for its videoId
C6_QueryRightAfterUpload ==
  /\ IsUploadOk(resp)
  /\ IsAnalysisOk(resp')
  /\ resp'.req = resp.body.videoId

\* C6 as stated: an accepted upload creates exactly one record, as pending,
\* and the query for the returned videoId right after the upload response
\* is answered with pending
C6_QueryAfterUploadPending ==
  [][variant = "shopify" =>
       /\ C6_OneRecordPerUpload
       /\ C6_QueryRightAfterUpload =>
            resp'.body.analysis.status = "pending"]_vars

\* C6 amended: an accepted upload creates exactly one record, as pending,
\* and the record is still pending when the upload response is sent; the
\* query right after the response is answered with the record as stored at
\* that moment, which is pending only until the write startAnalysis issued
\* is applied
C6_PendingAtAck ==
  [][variant = "shopify" =>
       /\ C6_OneRecordPerUpload
       /\ C6_QueryRightAfterUpload =>
            /\ resp'.body.analysis = store[resp'.req]
            /\ resp'.body.analysis.status \in StatusEnum]_vars

C6_Witness ==
  /\ variant = "shopify"
  /\ IsAnalysisOk(resp)
  /\ resp.body.analysis.status = "processing"
  /\ Cardinality(DOMAIN store) = 2

\* C7: a record that is processing is completed or failed later on, in
\* every fair run (stated for the runs in which the process stays alive)
C7_ProcessingEnds ==
  []running =>
    \A id \in ObjIds :
      (id \in DOMAIN store /\ store[id].status = "processing")
        ~> (id \in DOMAIN store /\ store[id].status \in Terminal)

\* C8: no rejection goes unhandled and the serving process stays alive
C8_NoUnhandledRejection == ~unhandledRejection /\ running

\* C9: an upload of a disallowed type or over the size limit is answered
\* 400 {success: false, error}, and its step creates no record, stores no
\* artifact and starts no analysis, on each of the three servers
C9_BadUploadRejected ==
  [][(/\ UploadAnswered
      /\ resp'.req.hasFile
      /\ ~fileFilter(resp'.req.file) \/ ~WithinLimits(resp'.req.file)) =>
       /\ resp'.code = 400
       /\ resp'.json
       /\ resp'.body.success = FALSE
       /\ store' = store
       /\ artifacts' = artifacts
       /\ calls' = calls]_vars

\* C10: a query for an id that has no record is answered 404 {success:
\* false, error: 'Analysis not found'}
C10_UnknownIdIs404 ==
  (resp.route = "analysis" /\ resp.req \notin DOMAIN store) =>
    /\ resp.code = 404
    /\ resp.body.success = FALSE
    /\ resp.body.error = "Analysis not found"

\* C11: a startAnalysis call made for an id that has no record writes
\* nothing and never comes to hold a timer
C11_NoRecordNoTimer ==
  [][\A c \in DOMAIN calls :
       (calls[c].at = "none" /\ calls'[c] # calls[c]) =>
         /\ store' = store
         /\ calls'[c].pc # "timer"]_vars

\* C12: two different records never carry the same storage address
\* (videoId is the stored file name, videoUrl its URL)
C12_DistinctAddresses ==
  \A id, other \in DOMAIN store :
    id # other =>
      /\ store[id].videoId # store[other].videoId
      /\ store[id].videoUrl # store[other].videoUrl

\* C13: on the database-backed server an upload answered with success has
\* added its record and its artifact, and an upload answered with a failure
\* leaves no record and no artifact behind and starts no analysis
C13_AllOrNothing ==
  [][(UploadAnswered /\ variant = "shopify") =>
       IF IsUploadOk(resp')
         THEN /\ DOMAIN store' = DOMAIN store \cup {resp'.body.videoId}
              /\ resp'.body.videoId \notin DOMAIN store
              /\ store'[resp'.body.videoId].videoId \in artifacts'
         ELSE /\ store' = store
              /\ artifacts' = artifacts
              /\ calls' = calls]_vars

C15_FailuresAreJson ==
  (resp.route # "none" /\ resp.code # 200) =>
    /\ resp.json
    /\ resp.body.success = FALSE
    /\ "error" \in DOMAIN resp.body

\* the ten numeric scores of a results payload
Scores(results) ==
  { results.technique.overallScore,
    results.technique.detailedMetrics.backswing,
    results.technique.detailedMetrics.followThrough,
    results.technique.detailedMetrics.contactPoint,
    results.technique.detailedMetrics.racketPath,
    results.footwork.overallScore,
    results.footwork.detailedMetrics.movementEfficiency,
    results.footwork.detailedMetrics.recoverySpeed,
    results.footwork.detailedMetrics.courtCoverage,
    results.strategy.overallScore }

\* C16: every score simulateAIAnalysis computes is an integer from 60 to
\* 100, for every value of Math.random(), and so is every score in the
\* results of every completed record
C16_ScoresInRange ==
  /\ \A r \in RandSamples : RandomScore(r) \in 60 .. 100
  /\ \A rs \in RandomStreams : Scores(simulateAIAnalysis(rs)) \subseteq 60 .. 100
  /\ \A id \in DOMAIN store :
       store[id].status = "completed" =>
         Scores(store[id].results) \subseteq 60 .. 100

C16_Witness ==
  \E id, other \in DOMAIN store :
    /\ store[id].status = "completed"
    /\ store[other].status = "completed"
    /\ store[id].results.technique.overallScore = 60
    /\ store[other].results.technique.overallScore = 99

\* C17: when the database-backed server answers an upload with success, the
\* record of the returned id is not completed and the callback of its
\* analysis has not run: its startAnalysis call is still at its first await
C17_AckBeforeCallback ==
  [][(UploadAnswered /\ IsUploadOk(resp') /\ variant = "shopify") =>
       /\ resp'.body.videoId \in DOMAIN store'
       /\ store'[resp'.body.videoId].status # "completed"
       /\ store'[resp'.body.videoId].results = Undefined
       /\ \A c \in DOMAIN calls' :
            calls'[c].id = resp'.body.videoId => calls'[c].pc = "update"]_vars

C17_Witness ==
  /\ variant = "shopify"
  /\ IsUploadOk(resp)
  /\ resp.body.videoId \in DOMAIN store
  /\ store[resp.body.videoId].status = "pending"
  /\ \E c \in DOMAIN calls :
       calls[c].id = resp.body.videoId /\ calls[c].pc = "update"
  /\ \E other \in DOMAIN store : store[other].status = "completed"

\* C18: a step never changes userId, shopId, videoId, videoUrl or createdAt
\* of a record, and a record changes only in a step of a startAnalysis call
\* made for its id
C18_WritesConfined ==
  [][\A id \in DOMAIN store :
       /\ id \in DOMAIN store'
       /\ \A f \in {"userId", "shopId", "videoId", "videoUrl", "createdAt"} :
            store'[id][f] = store[id][f]
       /\ store'[id] # store[id] =>
            \E c \in DOMAIN calls :
              /\ calls[c].id = id
              /\ calls'[c].pc # calls[c].pc]_vars

C18_Witness ==
  \E id, other \in DOMAIN store :
    /\ store[id].status = "completed"
    /\ store[other].status = "pending"
    /\ store[other].results = Undefined
    /\ \E c \in DOMAIN calls : calls[c].id = other /\ calls[c].pc = "update"

\* the calls of an id that hold a timer, and those whose callback has run
Deferred(id) ==
  {c \in DOMAIN calls : calls[c].id = id /\ calls[c].pc = "timer"}

CallbackRan(id) ==
  {c \in DOMAIN calls :
     calls[c].id = id /\ calls[c].pc \in {"timerCatch", "done", "timerRejected"}}

\* C19: in the servers as run, a record has at most one timer, it has one
\* only while its status is processing, the callback runs at most once for
\* it, and after its callback has run no timer is set for it again
C19_OneTimerOnce ==
  [][\A id \in ObjIds :
       /\ Cardinality(Deferred(id)') <= 1
       /\ Cardinality(CallbackRan(id)') <= 1
       /\ Deferred(id)' # {} =>
            (id \in DOMAIN store' /\ store'[id].status = "processing")
       /\ CallbackRan(id) # {} => Deferred(id)' = {}]_vars

C19_Witness ==
  \E id, other \in ObjIds :
    /\ Deferred(id) # {}
    /\ CallbackRan(other) # {}
    /\ store[id].status = "processing"
    /\ store[other].status = "failed"

\* the update to 'processing' of call c failed
WriteFailed(c) == calls[c].pc \in {"catch", "returned", "rejected"}

\* C20: a step in which the update to 'processing' of a call fails sets no
\* timer, and the record of a call whose update failed is never processing
\* or completed and never has results
C20_FailedStartNeverCompletes ==
  [][\A c \in DOMAIN calls :
       /\ (/\ calls[c].pc = "update"
           /\ calls'[c].pc # "update"
           /\ StatusOf(store', calls[c].id) # "processing") =>
            calls'[c].pc # "timer"
       /\ WriteFailed(c)' =>
            /\ calls'[c].pc # "timer"
            /\ StatusOf(store', calls[c].id) \in {"pending", "failed"}
            /\ store'[calls[c].id].results = Undefined]_vars

C20_Witness ==
  \E c \in DOMAIN calls :
    /\ calls[c].pc = "rejected"
    /\ store[calls[c].id].status = "pending"
    /\ store[calls[c].id].results = Undefined

====
